---- MODULE Spec2Model ----
(***************************************************************************)
(* Timezone information file (TZif) decoder of dtformats/tzif.py:          *)
(* TimeZoneInformationFile.ReadFileObject and the readers it calls.        *)
(*                                                                         *)
(* Two TimeZoneInformationFile objects are constructed, one with           *)
(* debug=False ("plain") and one with debug=True ("debug"); each reads its *)
(* own file object over the same bytes.  The program is single-threaded,   *)
(* so the two ReadFileObject calls run one after the other.                *)
(***************************************************************************)
EXTENDS Integers, Sequences, FiniteSets, TLC

(* ------------------------------ bounds -------------------------------- *)

\* largest number_of_transition_times of a generated file
MaxTransitions == 2
\* largest value of each of the five other header counts
MaxCount == 1
\* largest number of bytes cut off the end of a generated file
MaxCut == 2

(* ----------------------------- constants ------------------------------ *)

\* Python's None, and a value that is present
None == <<>>

Some(x) == <<x>>

\* _FILE_SIGNATURE = b'TZif'
FILE_SIGNATURE == <<84, 90, 105, 102>>

\* the tuple (0x00, 0x32, 0x33) of _ReadFileHeader
SupportedFormatVersions == {0, 50, 51}

\* tzif_file_header of _DATA_TYPE_FABRIC_DEFINITION: the members in
\* declaration order; byte_order: big-endian
FileHeaderMembers ==
  << [name |-> "signature", type |-> "stream", size |-> 4],
     [name |-> "format_version", type |-> "integer", size |-> 1],
     [name |-> "unknown1", type |-> "stream", size |-> 15],
     [name |-> "number_of_utc_time_indicators", type |-> "integer", size |-> 4],
     [name |-> "number_of_standard_time_indicators", type |-> "integer", size |-> 4],
     [name |-> "number_of_leap_seconds", type |-> "integer", size |-> 4],
     [name |-> "number_of_transition_times", type |-> "integer", size |-> 4],
     [name |-> "number_of_local_time_types", type |-> "integer", size |-> 4],
     [name |-> "timezone_abbreviation_strings_size", type |-> "integer", size |-> 4] >>

\* tzif_transition_times: sequence of uint32, sized by the header
TRANSITION_TIMES ==
  [name |-> "tzif_transition_times", element_size |-> 4,
   structure |-> "tzif_file_header", member |-> "number_of_transition_times"]

\* tzif_transition_time_index: sequence of byte, sized by the header
TRANSITION_TIME_INDEX ==
  [name |-> "tzif_transition_time_index", element_size |-> 1,
   structure |-> "tzif_file_header", member |-> "number_of_transition_times"]

RECURSIVE SumSizes(_, _)
SumSizes(members, n) ==
  IF n = 0 THEN 0 ELSE SumSizes(members, n - 1) + members[n].size

\* _FILE_HEADER.GetByteSize()
GetByteSize(members) == SumSizes(members, Len(members))

\* _FILE_HEADER_SIZE
FILE_HEADER_SIZE == GetByteSize(FileHeaderMembers)

(* ------------------------------- errors -------------------------------- *)

NoError == [class |-> "none", message |-> "", arg |-> 0]

\* errors.ParseError('Unsupported file signature.')
UnsupportedFormatError ==
  [class |-> "ParseError", message |-> "Unsupported file signature.", arg |-> 0]

\* errors.ParseError('Unsupported format version: {0:d}.'.format(version))
UnsupportedVersionError(version) ==
  [class |-> "ParseError", message |-> "Unsupported format version: {0:d}.",
   arg |-> version]

\* the byte source's failure when fewer bytes remain than a read requires
InsufficientDataError ==
  [class |-> "ParseError", message |-> "insufficient data", arg |-> 0]

\* the failure of a size expression whose structure is not in the context
UnresolvedContextError ==
  [class |-> "ParseError", message |-> "unresolved context", arg |-> 0]

(* --------------------------- byte conversions --------------------------- *)

RECURSIVE BigEndian(_)
\* unsigned integer of a byte string, most significant byte first
BigEndian(bytes) ==
  IF bytes = <<>> THEN 0
  ELSE BigEndian(SubSeq(bytes, 1, Len(bytes) - 1)) * 256 + bytes[Len(bytes)]

RECURSIVE LittleEndian(_)
\* unsigned integer of a byte string, least significant byte first
LittleEndian(bytes) ==
  IF bytes = <<>> THEN 0
  ELSE bytes[1] + 256 * LittleEndian(Tail(bytes))

\* integer of a byte string in the given byte order
MapInteger(bytes, byte_order) ==
  IF byte_order = "big-endian" THEN BigEndian(bytes) ELSE LittleEndian(bytes)

(* ------------------------- structure reader ---------------------------- *)

\* the byte offset of member i within the structure (no padding)
MemberOffset(members, i) == SumSizes(members, i - 1)

\* the value of member i of a structure mapped onto bytes
MapMember(members, i, bytes, byte_order) ==
  LET raw == SubSeq(bytes, MemberOffset(members, i) + 1,
                    MemberOffset(members, i) + members[i].size)
  IN  IF members[i].type = "stream" THEN raw ELSE MapInteger(raw, byte_order)

\* _FILE_HEADER.MapByteStream(data): the structure as a record of its
\* members, each decoded in declaration order
MapFileHeader(bytes) ==
  [name \in {FileHeaderMembers[i].name : i \in 1..Len(FileHeaderMembers)} |->
     LET i == CHOOSE k \in 1..Len(FileHeaderMembers) :
                FileHeaderMembers[k].name = name
     IN  MapMember(FileHeaderMembers, i, bytes, "big-endian")]

\* file_object.read(size): the bytes from the cursor on, at most size of
\* them, fewer at the end of the file
FileRead(bytes, file_offset, size) ==
  SubSeq(bytes, file_offset + 1,
         IF file_offset + size < Len(bytes) THEN file_offset + size
         ELSE Len(bytes))

\* self._ReadStructure(file_object, file_offset, data_size, data_type_map,
\* description): reads exactly data_size bytes and maps them; fails when
\* fewer bytes remain
ReadStructure(bytes, file_offset, data_size) ==
  LET data == FileRead(bytes, file_offset, data_size)
  IN  IF Len(data) < data_size
      THEN [error |-> InsufficientDataError, value |-> None,
            read |-> Len(data)]
      ELSE [error |-> NoError, value |-> Some(MapFileHeader(data)),
            read |-> Len(data)]

\* data_type_map.MapByteStream(byte_stream, context=context) of a sequence
\* map: the number of elements is the size expression evaluated in the
\* context, the elements are decoded one after the other
MapSequence(map, byte_stream, context, byte_order) ==
  IF map.structure \notin context.names
  THEN [error |-> UnresolvedContextError, value |-> None]
  ELSE LET n == context[map.structure][map.member]
       IN  IF Len(byte_stream) < n * map.element_size
           THEN [error |-> InsufficientDataError, value |-> None]
           ELSE [error |-> NoError,
                 value |-> Some([i \in 1..n |->
                    MapInteger(SubSeq(byte_stream,
                                      (i - 1) * map.element_size + 1,
                                      i * map.element_size), byte_order)])]

\* self._ReadStructureFromByteStream(data, file_offset, data_type_map,
\* description, context=context)
ReadStructureFromByteStream(data, map, context, byte_order) ==
  MapSequence(map, data, context, byte_order)

\* dtfabric_data_maps.DataTypeMapContext(values={'tzif_file_header': ...})
DataTypeMapContext(header) ==
  [names |-> {"tzif_file_header"}, tzif_file_header |-> header]

\* dtfabric_data_maps.DataTypeMapContext(): a context that binds nothing
EmptyContext == [names |-> {}]

(* ---------------------------- debug tracer ----------------------------- *)

DecimalDigits == <<"0", "1", "2", "3", "4", "5", "6", "7", "8", "9">>

HexDigits == DecimalDigits \o <<"a", "b", "c", "d", "e", "f">>

RECURSIVE FormatD(_)
\* '{0:d}'.format(n)
FormatD(n) ==
  IF n < 10 THEN <<DecimalDigits[n + 1]>>
  ELSE FormatD(n \div 10) \o <<DecimalDigits[(n % 10) + 1]>>

RECURSIVE FormatX(_)
\* '{0:x}'.format(n)
FormatX(n) ==
  IF n < 16 THEN <<HexDigits[n + 1]>>
  ELSE FormatX(n \div 16) \o <<HexDigits[(n % 16) + 1]>>

\* '0x{0:02x}'.format(n)
Format0x02x(n) ==
  <<"0", "x">> \o (IF n < 16 THEN <<"0">> ELSE <<>>) \o FormatX(n)

\* self._DebugPrintValue(description, value_string)
DebugPrintValue(out, description, value_string) ==
  Append(out, [kind |-> "value", label |-> description,
               value |-> value_string, data |-> <<>>])

\* self._DebugPrintData(description, data)
DebugPrintData(out, description, data) ==
  Append(out, [kind |-> "data", label |-> description,
               value |-> <<>>, data |-> data])

\* self._DebugPrintText(text)
DebugPrintText(out, text) ==
  Append(out, [kind |-> "text", label |-> <<text>>,
               value |-> <<>>, data |-> <<>>])

\* _DebugPrintFileHeader(file_header)
DebugPrintFileHeader(out, h) ==
  LET o1 == Append(out, [kind |-> "value", label |-> <<"Signature">>,
                         value |-> <<"{0!s}">>, data |-> h.signature])
      o2 == DebugPrintValue(o1, <<"Format version">>,
                            Format0x02x(h.format_version))
      o3 == DebugPrintData(o2, <<"Unknown1">>, h.unknown1)
      o4 == DebugPrintValue(o3, <<"Number of UTC time indicators">>,
                            FormatD(h.number_of_utc_time_indicators))
      o5 == DebugPrintValue(o4, <<"Number of standard time indicators">>,
                            FormatD(h.number_of_standard_time_indicators))
      o6 == DebugPrintValue(o5, <<"Number of leap seconds">>,
                            FormatD(h.number_of_leap_seconds))
      o7 == DebugPrintValue(o6, <<"Number of transition times">>,
                            FormatD(h.number_of_transition_times))
      o8 == DebugPrintValue(o7, <<"Number of local time types">>,
                            FormatD(h.number_of_local_time_types))
      o9 == DebugPrintValue(o8, <<"Timezone abbreviation strings size">>,
                            FormatD(h.timezone_abbreviation_strings_size))
  IN  DebugPrintText(o9, "\n")

RECURSIVE DebugPrintElements(_, _, _, _)
\* the loop of _DebugPrintTransitionTimes and _DebugPrintTransitionTimeIndex:
\* for index, value in enumerate(values), from position k on
DebugPrintElements(out, description, values, k) ==
  IF k > Len(values) THEN out
  ELSE DebugPrintElements(
         DebugPrintValue(out, <<description>> \o FormatD(k - 1),
                         FormatD(values[k])),
         description, values, k + 1)

\* _DebugPrintTransitionTimes(transition_times)
DebugPrintTransitionTimes(out, transition_times) ==
  DebugPrintText(
    DebugPrintElements(out, "Transition time: ", transition_times, 1), "\n")

\* _DebugPrintTransitionTimeIndex(transition_time_index)
DebugPrintTransitionTimeIndex(out, transition_time_index) ==
  DebugPrintText(
    DebugPrintElements(out, "Type of local time: ", transition_time_index, 1),
    "\n")

(* ------------------------------ inputs --------------------------------- *)

\* a count as the four bytes of a big-endian unsigned 32-bit integer
UInt32BE(n) ==
  << (n \div 16777216) % 256, (n \div 65536) % 256, (n \div 256) % 256,
     n % 256 >>

\* the values tried in the signature position
Signatures ==
  { FILE_SIGNATURE, <<90, 90, 73, 70>>, <<84, 90, 105, 70>>,
    <<116, 90, 105, 102>>, <<0, 0, 0, 0>> }

CountNames ==
  { "number_of_utc_time_indicators", "number_of_standard_time_indicators",
    "number_of_leap_seconds", "number_of_transition_times",
    "number_of_local_time_types", "timezone_abbreviation_strings_size" }

\* header counts: up to MaxTransitions transition times, up to MaxCount of
\* everything else
CountChoices ==
  { c \in [CountNames -> 0..(IF MaxTransitions > MaxCount THEN MaxTransitions
                             ELSE MaxCount)] :
      /\ c["number_of_transition_times"] <= MaxTransitions
      /\ \A n \in CountNames \ {"number_of_transition_times"} :
           c[n] <= MaxCount }

\* counts with transition times only
TransitionOnlyCounts ==
  { c \in CountChoices :
      \A n \in CountNames \ {"number_of_transition_times"} : c[n] = 0 }

\* the counts of the files that vary the signature and the version byte
BaseCounts ==
  [n \in CountNames |->
     IF n = "number_of_transition_times" THEN MaxTransitions
     ELSE IF n = "number_of_local_time_types" THEN MaxCount ELSE 0]

\* the bytes the sections of an untruncated file with these counts hold
BodySize(c) ==
  4 * c["number_of_transition_times"] + c["number_of_transition_times"]
  + 6 * c["number_of_local_time_types"]
  + c["timezone_abbreviation_strings_size"]
  + 8 * c["number_of_leap_seconds"]
  + c["number_of_standard_time_indicators"]
  + c["number_of_utc_time_indicators"]

\* counts that are all zero
ZeroCounts == [n \in CountNames |-> 0]

\* the files read: every signature and version byte over one layout; every
\* layout, cut short by up to MaxCut bytes; repeated transition times;
\* every signature over a header cut short
Inputs ==
  { [signature |-> sg, format_version |-> v, counts |-> BaseCounts,
     cut |-> 0, fill |-> "ramp"] : sg \in Signatures, v \in 0..255 }
  \cup
  { [signature |-> FILE_SIGNATURE, format_version |-> 50, counts |-> c,
     cut |-> k, fill |-> "ramp"] : c \in CountChoices, k \in 0..MaxCut }
  \cup
  { [signature |-> FILE_SIGNATURE, format_version |-> v, counts |-> c,
     cut |-> 0, fill |-> "repeat"] :
       c \in TransitionOnlyCounts, v \in SupportedFormatVersions }
  \cup
  { [signature |-> sg, format_version |-> 50, counts |-> ZeroCounts,
     cut |-> k, fill |-> "ramp"] : sg \in Signatures, k \in 1..MaxCut }

\* byte i of the sections of a generated file
BodyByte(fill, i) ==
  IF fill = "ramp" THEN i % 256 ELSE ((i - 1) % 4) + 1

\* the bytes of a generated file before it is cut short
FullStream(in) ==
  in.signature \o <<in.format_version>> \o [i \in 1..15 |-> 0]
  \o UInt32BE(in.counts["number_of_utc_time_indicators"])
  \o UInt32BE(in.counts["number_of_standard_time_indicators"])
  \o UInt32BE(in.counts["number_of_leap_seconds"])
  \o UInt32BE(in.counts["number_of_transition_times"])
  \o UInt32BE(in.counts["number_of_local_time_types"])
  \o UInt32BE(in.counts["timezone_abbreviation_strings_size"])
  \o [i \in 1..BodySize(in.counts) |-> BodyByte(in.fill, i)]

\* the bytes of a generated file
BuildStream(in) ==
  LET full == FullStream(in)
  IN  SubSeq(full, 1, IF in.cut < Len(full) THEN Len(full) - in.cut ELSE 0)

(* ------------------------------- state --------------------------------- *)

VARIABLES
  input,             \* how the file read was generated
  stream,            \* the bytes of the file
  native_byte_order, \* the byte order of the host
  pc,                \* per object: the reader ReadFileObject is about to call
  offset,            \* per object: the cursor of its file object
  error,             \* per object: the exception ReadFileObject raised
  file_header,       \* per object: the file_header handed to the readers
  format_version,    \* per object: the attribute self.format_version
  context,           \* per object: the context of the last sequence read
  values,            \* per object: what each reader decoded or read
  output,            \* per object: what was sent to the output writer
  steps,             \* per object: the readers called, in call order
  probe              \* a sequence map applied outside the decoder

vars ==
  << input, stream, native_byte_order, pc, offset, error, file_header,
     format_version, context, values, output, steps, probe >>

\* TimeZoneInformationFile(debug=False) and TimeZoneInformationFile(debug=True)
Objects == {"plain", "debug"}

\* self._debug
DebugAlways(o) == TRUE

debug(o) == o = "debug"

\* the readers of _ReadFileHeader, in the order of their calls
Sections ==
  << "transition_times", "transition_time_index", "local_time_types_table",
     "timezone_abbreviation_strings", "leap_second_records",
     "standard_time_indicators", "utc_time_indicators" >>

SectionNames == { Sections[i] : i \in 1..Len(Sections) }

Finished == {"done", "failed"}

\* the reader called after the given one returns (the call sequence of
\* _ReadFileHeader); ReadFileObject returns after the last
NextReaderAbbreviationsLate(step) ==
  IF step = "file_header" THEN "transition_times"
  ELSE IF step = "transition_times" THEN "transition_time_index"
  ELSE IF step = "transition_time_index" THEN "local_time_types_table"
  ELSE IF step = "local_time_types_table" THEN "leap_second_records"
  ELSE IF step = "leap_second_records" THEN "timezone_abbreviation_strings"
  ELSE IF step = "timezone_abbreviation_strings"
  THEN "standard_time_indicators"
  ELSE IF step = "standard_time_indicators" THEN "utc_time_indicators"
  ELSE "done"

NextReader(step) ==
  IF step = "file_header" THEN Sections[1]
  ELSE LET i == CHOOSE k \in 1..Len(Sections) : Sections[k] = step
       IN  IF i = Len(Sections) THEN "done" ELSE Sections[i + 1]

\* the two signature and version checks of _ReadFileHeader
CheckFileHeaderVersionFirst(h) ==
  IF h.format_version \notin SupportedFormatVersions
  THEN UnsupportedVersionError(h.format_version)
  ELSE IF h.signature # FILE_SIGNATURE THEN UnsupportedFormatError
  ELSE NoError

CheckFileHeaderOneVersion(h) ==
  IF h.signature # FILE_SIGNATURE THEN UnsupportedFormatError
  ELSE IF h.format_version \notin {0, 50}
  THEN UnsupportedVersionError(h.format_version)
  ELSE NoError

CheckFileHeader(h) ==
  IF h.signature # FILE_SIGNATURE THEN UnsupportedFormatError
  ELSE IF h.format_version \notin SupportedFormatVersions
  THEN UnsupportedVersionError(h.format_version)
  ELSE NoError

\* data_size of each reader
TransitionTimesDataSize(h) == 4 * h.number_of_transition_times

TransitionTimeIndexDataSize(h) == 1 * h.number_of_transition_times

LocalTimeTypesDataSize(h) == 6 * h.number_of_local_time_types

AbbreviationStringsDataSize(h) == h.timezone_abbreviation_strings_size

LeapSecondsDataSize(h) == 8 * h.number_of_leap_seconds

StandardTimeIndicatorsDataSize(h) == 1 * h.number_of_standard_time_indicators

UTCTimeIndicatorsDataSize(h) == 1 * h.number_of_utc_time_indicators

\* the context the two sequence readers build
SequenceContextWrongName(h) ==
  [names |-> {"file_header"}, file_header |-> h]

SequenceContext(h) == DataTypeMapContext(h)

\* the objects read one after the other
Turn(o) == o = "plain" \/ pc["plain"] \in Finished

\* the state after the two objects are constructed and the file is opened
Start(inputs) ==
  /\ input \in inputs
  /\ stream = BuildStream(input)
  /\ native_byte_order \in {"big-endian", "little-endian"}
  /\ pc = [o \in Objects |-> "file_header"]
  /\ offset = [o \in Objects |-> 0]
  /\ error = [o \in Objects |-> NoError]
  /\ file_header = [o \in Objects |-> None]
  /\ format_version = [o \in Objects |-> None]
  /\ context = [o \in Objects |-> None]
  /\ values = [o \in Objects |-> [s \in SectionNames |-> None]]
  /\ output = [o \in Objects |-> <<>>]
  /\ steps = [o \in Objects |-> <<>>]

Init ==
  /\ Start(Inputs)
  /\ probe = None

\* _ReadFileHeader up to the first section reader: the header is read and
\* printed, then its signature and version are checked
ReadFileHeader(o) ==
  /\ Turn(o)
  /\ pc[o] = "file_header"
  /\ LET r == ReadStructure(stream, offset[o], FILE_HEADER_SIZE)
         err == IF r.error # NoError THEN r.error
                ELSE CheckFileHeader(r.value[1])
     IN  /\ offset' = [offset EXCEPT ![o] = @ + r.read]
         /\ output' = [output EXCEPT ![o] =
              IF r.error = NoError /\ debug(o)
              THEN DebugPrintFileHeader(@, r.value[1]) ELSE @]
         /\ error' = [error EXCEPT ![o] = err]
         /\ file_header' = [file_header EXCEPT ![o] =
              IF err = NoError THEN r.value ELSE @]
         /\ pc' = [pc EXCEPT ![o] =
              IF err = NoError THEN NextReader("file_header") ELSE "failed"]
  /\ steps' = [steps EXCEPT ![o] = Append(@, "file_header")]
  /\ UNCHANGED << input, stream, native_byte_order, format_version, context,
                  values, probe >>

\* a reader of a sequence: the bytes are read, mapped with a context that
\* binds the header, and printed
ReadSequence(o, step, data_size, map, ctx) ==
  /\ Turn(o)
  /\ pc[o] = step
  /\ LET data == FileRead(stream, offset[o], data_size)
         r == ReadStructureFromByteStream(data, map, ctx, native_byte_order)
     IN  /\ offset' = [offset EXCEPT ![o] = @ + Len(data)]
         /\ context' = [context EXCEPT ![o] = Some(ctx)]
         /\ error' = [error EXCEPT ![o] = r.error]
         /\ values' = [values EXCEPT ![o][step] = r.value]
         /\ output' = [output EXCEPT ![o] =
              IF r.error = NoError /\ debug(o)
              THEN IF step = "transition_times"
                   THEN DebugPrintTransitionTimes(@, r.value[1])
                   ELSE DebugPrintTransitionTimeIndex(@, r.value[1])
              ELSE @]
         /\ pc' = [pc EXCEPT ![o] =
              IF r.error = NoError THEN NextReader(step) ELSE "failed"]
  /\ steps' = [steps EXCEPT ![o] = Append(@, step)]
  /\ UNCHANGED << input, stream, native_byte_order, file_header,
                  format_version, probe >>

\* _ReadTransitionTimes
ReadTransitionTimes(o) ==
  /\ pc[o] = "transition_times"
  /\ ReadSequence(o, "transition_times",
                  TransitionTimesDataSize(file_header[o][1]), TRANSITION_TIMES,
                  SequenceContext(file_header[o][1]))

\* _ReadTransitionTimeIndex
ReadTransitionTimeIndex(o) ==
  /\ pc[o] = "transition_time_index"
  /\ ReadSequence(o, "transition_time_index",
                  TransitionTimeIndexDataSize(file_header[o][1]),
                  TRANSITION_TIME_INDEX, SequenceContext(file_header[o][1]))

\* a reader of a block of bytes: the bytes are read and printed; the number
\* of bytes read is not compared with data_size
ReadData(o, step, data_size, description) ==
  /\ Turn(o)
  /\ pc[o] = step
  /\ LET data == FileRead(stream, offset[o], data_size)
     IN  /\ offset' = [offset EXCEPT ![o] = @ + Len(data)]
         /\ values' = [values EXCEPT ![o][step] = Some(data)]
         /\ output' = [output EXCEPT ![o] =
              IF debug(o) THEN DebugPrintData(@, <<description>>, data)
              ELSE @]
  /\ pc' = [pc EXCEPT ![o] = NextReader(step)]
  /\ steps' = [steps EXCEPT ![o] = Append(@, step)]
  /\ UNCHANGED << input, stream, native_byte_order, error, file_header,
                  format_version, context, probe >>

\* _ReadLocalTimeTypesTable
ReadLocalTimeTypesTable(o) ==
  /\ pc[o] = "local_time_types_table"
  /\ ReadData(o, "local_time_types_table",
              LocalTimeTypesDataSize(file_header[o][1]),
              "Local time types table data")

\* _ReadTimezoneAbbreviationStrings
ReadTimezoneAbbreviationStrings(o) ==
  /\ pc[o] = "timezone_abbreviation_strings"
  /\ ReadData(o, "timezone_abbreviation_strings",
              AbbreviationStringsDataSize(file_header[o][1]),
              "Timezeone abbreviation strings data")

\* _ReadLeapSecondRecords
ReadLeapSecondRecords(o) ==
  /\ pc[o] = "leap_second_records"
  /\ ReadData(o, "leap_second_records",
              LeapSecondsDataSize(file_header[o][1]),
              "Leap second records data")

\* _ReadStandardTimeIndicators
ReadStandardTimeIndicators(o) ==
  /\ pc[o] = "standard_time_indicators"
  /\ ReadData(o, "standard_time_indicators",
              StandardTimeIndicatorsDataSize(file_header[o][1]),
              "Standard time indicators data")

\* _ReadUTCTimeIndicators
ReadUTCTimeIndicators(o) ==
  /\ pc[o] = "utc_time_indicators"
  /\ ReadData(o, "utc_time_indicators",
              UTCTimeIndicatorsDataSize(file_header[o][1]),
              "UTC time indicators data")

Next ==
  \/ \E o \in Objects : ReadFileHeader(o)
  \/ \E o \in Objects : ReadTransitionTimes(o)
  \/ \E o \in Objects : ReadTransitionTimeIndex(o)
  \/ \E o \in Objects : ReadLocalTimeTypesTable(o)
  \/ \E o \in Objects : ReadTimezoneAbbreviationStrings(o)
  \/ \E o \in Objects : ReadLeapSecondRecords(o)
  \/ \E o \in Objects : ReadStandardTimeIndicators(o)
  \/ \E o \in Objects : ReadUTCTimeIndicators(o)

Spec == Init /\ [][Next]_vars

(* ------------- a sequence map applied outside the decoder -------------- *)

\* the files of the specification that also applies a sequence map directly
ContextInputs == { in \in Inputs : in.counts \in TransitionOnlyCounts }

\* the calls tried: either sequence map, over the bytes that follow the
\* header, with a context that binds nothing or one that binds the header
\* of the untruncated file
Probes(in, bytes) ==
  { [map |-> m, context |-> c,
     data |-> SubSeq(bytes, FILE_HEADER_SIZE + 1, Len(bytes)),
     result |-> None] :
      m \in {TRANSITION_TIMES, TRANSITION_TIME_INDEX},
      c \in { EmptyContext,
              DataTypeMapContext(MapFileHeader(FullStream(in))) } }

InitContext ==
  /\ Start(ContextInputs)
  /\ probe \in { Some(p) : p \in Probes(input, stream) }

\* self._ReadStructureFromByteStream(data, file_offset, data_type_map,
\* description, context=context) called with the probe's context
ApplyProbe ==
  /\ probe # None
  /\ probe[1].result = None
  /\ probe' = Some([probe[1] EXCEPT !.result =
        Some(ReadStructureFromByteStream(probe[1].data, probe[1].map,
                                         probe[1].context,
                                         native_byte_order))])
  /\ UNCHANGED << input, stream, native_byte_order, pc, offset, error,
                  file_header, format_version, context, values, output,
                  steps >>

NextContext == Next \/ ApplyProbe

SpecContext == InitContext /\ [][NextContext]_vars

(* ------------------------------- claims -------------------------------- *)

\* the file holds a whole header
HasHeader == Len(stream) >= FILE_HEADER_SIZE

\* the reader was called
Ran(o, step) == \E i \in 1..Len(steps[o]) : steps[o][i] = step

\* no section reader was called and nothing was decoded or read
NoSectionRead(o) ==
  /\ steps[o] = <<"file_header">>
  /\ \A s \in SectionNames : values[o][s] = None
  /\ context[o] = None

\* the header of the file read is valid
ValidHeader ==
  /\ HasHeader
  /\ input.signature = <<84, 90, 105, 102>>
  /\ input.format_version \in {0, 50, 51}

\* the number of bytes an untruncated file with the header's counts holds
ExpectedSize(c) ==
  44 + 4 * c["number_of_transition_times"]
     + 1 * c["number_of_transition_times"]
     + 6 * c["number_of_local_time_types"]
     + c["timezone_abbreviation_strings_size"]
     + 8 * c["number_of_leap_seconds"]
     + c["number_of_standard_time_indicators"]
     + c["number_of_utc_time_indicators"]

\* the steps of a decode, in order
DecodeOrder ==
  << "file_header", "transition_times", "transition_time_index",
     "local_time_types_table", "timezone_abbreviation_strings",
     "leap_second_records", "standard_time_indicators",
     "utc_time_indicators" >>

\* C1: a file whose header holds a signature other than 'TZif' is rejected
\* by the header step whatever its version byte: the decode fails, with the
\* signature error when the header is whole, no section reader is called and
\* the cursor is at most the header size past the start.
Thm_C1_SignatureRejected ==
  \A o \in Objects :
    (input.signature # <<84, 90, 105, 102>> /\ steps[o] # <<>>) =>
      /\ pc[o] = "failed"
      /\ HasHeader => error[o] = UnsupportedFormatError
      /\ error[o] # NoError
      /\ NoSectionRead(o)
      /\ file_header[o] = None
      /\ offset[o] <= 44

\* C1 witness: a file with a wrong signature and an unsupported version byte
\* was rejected with the signature error
Wit_C1_SignatureRejected ==
  /\ input.signature = <<90, 90, 73, 70>>
  /\ input.format_version = 255
  /\ pc["debug"] = "failed"
  /\ error["debug"] = UnsupportedFormatError
  /\ offset["debug"] = 44

\* C2: with the 'TZif' signature and a whole header, the header step passes
\* for the version bytes 0x00, 0x32 and 0x33 and hands the decoded header to
\* the section readers; for every other version byte it fails with the
\* version error, keeps no header and calls no section reader.
Thm_C2_VersionChecked ==
  \A o \in Objects :
    (input.signature = <<84, 90, 105, 102>> /\ HasHeader /\ steps[o] # <<>>) =>
      IF input.format_version \in {0, 50, 51}
      THEN /\ file_header[o] # None
           /\ file_header[o][1].format_version = input.format_version
           /\ steps[o] = <<"file_header">> =>
                (pc[o] = "transition_times" /\ error[o] = NoError)
      ELSE /\ pc[o] = "failed"
           /\ error[o] = UnsupportedVersionError(input.format_version)
           /\ file_header[o] = None
           /\ NoSectionRead(o)

\* C2 witness: a file with the right signature and version byte 0x31 was
\* rejected with the version error
Wit_C2_VersionRejected ==
  /\ input.signature = <<84, 90, 105, 102>>
  /\ input.format_version = 49
  /\ pc["plain"] = "failed"
  /\ error["plain"] = UnsupportedVersionError(49)

\* the bytes step i of the decode order needs, by the counts c
StepSize(c, i) ==
  IF i = 1 THEN 44
  ELSE IF i = 2 THEN 4 * c["number_of_transition_times"]
  ELSE IF i = 3 THEN c["number_of_transition_times"]
  ELSE IF i = 4 THEN 6 * c["number_of_local_time_types"]
  ELSE IF i = 5 THEN c["timezone_abbreviation_strings_size"]
  ELSE IF i = 6 THEN 8 * c["number_of_leap_seconds"]
  ELSE IF i = 7 THEN c["number_of_standard_time_indicators"]
  ELSE c["number_of_utc_time_indicators"]

RECURSIVE StepEnd(_, _)
\* the position in the file at which step i ends
StepEnd(c, i) == IF i = 0 THEN 0 ELSE StepEnd(c, i - 1) + StepSize(c, i)

\* the first step whose bytes a file of the given length does not hold
FirstShortStep(c, length) ==
  CHOOSE i \in 1..Len(DecodeOrder) :
    /\ StepEnd(c, i) > length
    /\ \A k \in 1..(i - 1) : StepEnd(c, k) <= length

\* what step i yields on the untruncated file: the elements of a sequence,
\* the bytes of a block
UntruncatedValue(i) ==
  LET first == StepEnd(input.counts, i - 1)
      bytes == SubSeq(FullStream(input), first + 1, StepEnd(input.counts, i))
  IN  IF i = 2
      THEN [k \in 1..input.counts["number_of_transition_times"] |->
              MapInteger(SubSeq(bytes, 4 * (k - 1) + 1, 4 * k),
                         native_byte_order)]
      ELSE bytes

\* C3 as claimed: an otherwise valid file cut short of its expected size is
\* never read successfully: the decode ends with the insufficient-data
\* error at the first step whose bytes the file does not hold, and every
\* section before that step is decoded as in the untruncated file.
Cex_C3_TruncationFails ==
  \A o \in Objects :
    (/\ input.signature = <<84, 90, 105, 102>>
     /\ input.format_version \in {0, 50, 51}
     /\ Len(stream) < ExpectedSize(input.counts)
     /\ pc[o] \in Finished) =>
      /\ pc[o] = "failed"
      /\ error[o] = InsufficientDataError
      /\ Len(steps[o]) = FirstShortStep(input.counts, Len(stream))
      /\ \A i \in 2..(Len(steps[o]) - 1) :
           values[o][DecodeOrder[i]] = Some(UntruncatedValue(i))

\* C4 as claimed: after a successful decode the cursor has advanced by the
\* header size plus the size of every section.
Cex_C4_SizeLaw ==
  \A o \in Objects :
    pc[o] = "done" => offset[o] = ExpectedSize(file_header[o][1])

\* the bytes of the untruncated file from position first to position last
FileBytes(first, last) == SubSeq(FullStream(input), first, last)

\* C6 as claimed: after a successful decode there are as many transition
\* times as the header says, each the big-endian value of its four bytes in
\* file order, as many index bytes, and a local time types block of six
\* bytes per local time type.
Cex_C6_ContextSizing ==
  \A o \in Objects :
    pc[o] = "done" =>
      LET h == file_header[o][1]
          n == h.number_of_transition_times
          times == values[o]["transition_times"][1]
          index == values[o]["transition_time_index"][1]
      IN  /\ Len(times) = n
          /\ \A i \in 1..n :
               times[i] = BigEndian(FileBytes(44 + 4 * (i - 1) + 1, 44 + 4 * i))
          /\ Len(index) = n
          /\ \A i \in 1..n : index[i] = FullStream(input)[44 + 4 * n + i]
          /\ Len(values[o]["local_time_types_table"][1])
               = 6 * h.number_of_local_time_types

\* C7, in every state: the readers called so far are an initial part of
\* the decode order, the next call is the next step of that order, a section
\* reader runs only with a validated header, and a decode ends done after
\* all eight steps or failed with an error.
C7_Linear ==
  \A o \in Objects :
    /\ Len(steps[o]) <= Len(DecodeOrder)
    /\ \A i \in 1..Len(steps[o]) : steps[o][i] = DecodeOrder[i]
    /\ pc[o] \notin Finished =>
         (error[o] = NoError /\ pc[o] = DecodeOrder[Len(steps[o]) + 1])
    /\ pc[o] = "done" => (steps[o] = DecodeOrder /\ error[o] = NoError)
    /\ pc[o] = "failed" => error[o] # NoError
    /\ Len(steps[o]) > 1 =>
         /\ file_header[o] # None
         /\ file_header[o][1].signature = <<84, 90, 105, 102>>
         /\ file_header[o][1].format_version \in {0, 50, 51}

\* C7, in every step: the cursor never moves back, a reader is called only
\* while no error was raised, and a finished decode does nothing more.
C7_Step ==
  \A o \in Objects :
    /\ offset'[o] >= offset[o]
    /\ steps'[o] # steps[o] =>
         (error[o] = NoError /\ steps'[o] = Append(steps[o], pc[o]))
    /\ pc[o] \in Finished =>
         /\ pc'[o] = pc[o]
         /\ steps'[o] = steps[o]
         /\ offset'[o] = offset[o]
         /\ values'[o] = values[o]
         /\ error'[o] = error[o]

\* C7: the decode is a strictly linear sequence of header and seven section
\* reads; no step is skipped, repeated or reordered, the cursor never
\* decreases, and nothing runs after the first failure.
Thm_C7_LinearDecode == []C7_Linear /\ [][C7_Step]_vars

\* C7 witness: a decode failed at its third step, the transition time index
Wit_C7_FailedAtIndex ==
  /\ pc["debug"] = "failed"
  /\ steps["debug"] =
       <<"file_header", "transition_times", "transition_time_index">>
  /\ error["debug"] = InsufficientDataError

\* C8, in every state: a sequence map applied with a context that does not
\* bind 'tzif_file_header' fails with the unresolved-context error and
\* yields nothing, and with the header bound it does not fail that way; the
\* context of every sequence read of the decoder binds the decoded header
\* of the file being read.
C8_State ==
  /\ (probe # None /\ probe[1].result # None) =>
       IF "tzif_file_header" \notin probe[1].context.names
       THEN /\ probe[1].result[1].error = UnresolvedContextError
            /\ probe[1].result[1].value = None
       ELSE probe[1].result[1].error # UnresolvedContextError
  /\ \A o \in Objects :
       /\ Ran(o, "transition_times") => context[o] # None
       /\ context[o] # None =>
            /\ "tzif_file_header" \in context[o][1].names
            /\ file_header[o] # None
            /\ context[o][1].tzif_file_header = file_header[o][1]
            /\ file_header[o][1].signature = input.signature
            /\ file_header[o][1].format_version = input.format_version
            /\ \A n \in CountNames : file_header[o][1][n] = input.counts[n]

\* C8, in every step: a bound header is never replaced by another one.
C8_Step ==
  \A o \in Objects :
    /\ file_header[o] # None => file_header'[o] = file_header[o]
    /\ context[o] # None => context'[o] = context[o]

\* C8: reading a sequence without 'tzif_file_header' in the context fails
\* with the unresolved-context error; the decoder reads its sequences with
\* the decoded header of the same file bound, and never rebinds it.
Thm_C8_ContextOrdering == []C8_State /\ [][C8_Step]_vars

\* C8 witness: the direct read without the header failed as unresolved, and
\* the decoder has read both sequences with the header bound
Wit_C8_ContextOrdering ==
  /\ probe # None
  /\ probe[1].result # None
  /\ probe[1].context = EmptyContext
  /\ probe[1].result[1].error = UnresolvedContextError
  /\ Ran("debug", "transition_time_index")
  /\ context["debug"] # None
  /\ file_header["debug"][1].number_of_transition_times = 2

\* the labels of the header fields, in the order of the header
HeaderLabels ==
  << "Signature", "Format version", "Unknown1",
     "Number of UTC time indicators", "Number of standard time indicators",
     "Number of leap seconds", "Number of transition times",
     "Number of local time types", "Timezone abbreviation strings size" >>

\* the labels of the blocks of bytes, in decode order
DataLabels ==
  << "Local time types table data", "Timezeone abbreviation strings data",
     "Leap second records data", "Standard time indicators data",
     "UTC time indicators data" >>

\* the place of an emission in the decode order; 0 for a line break
Rank(e) ==
  IF e.kind = "text" THEN 0
  ELSE IF \E i \in 1..Len(HeaderLabels) : HeaderLabels[i] = e.label[1]
  THEN CHOOSE i \in 1..Len(HeaderLabels) : HeaderLabels[i] = e.label[1]
  ELSE IF e.label[1] = "Transition time: " THEN Len(HeaderLabels) + 1
  ELSE IF e.label[1] = "Type of local time: " THEN Len(HeaderLabels) + 2
  ELSE Len(HeaderLabels) + 2
       + CHOOSE i \in 1..Len(DataLabels) : DataLabels[i] = e.label[1]

\* the emissions are in decode order: header fields in header order, then
\* the transition times, then the index entries, each with its index and
\* value, then the blocks of bytes
InDecodeOrder(out, times, index) ==
  /\ \A i, j \in 1..Len(out) :
       (i < j /\ Rank(out[i]) # 0 /\ Rank(out[j]) # 0) =>
         /\ Rank(out[i]) <= Rank(out[j])
         /\ Rank(out[i]) = Rank(out[j]) =>
              Rank(out[i]) \in {Len(HeaderLabels) + 1, Len(HeaderLabels) + 2}
  /\ \A i \in 1..Len(out) :
       /\ Rank(out[i]) = Len(HeaderLabels) + 1 =>
            LET k == i - (Len(HeaderLabels) + 1)
            IN  /\ out[i].label = <<"Transition time: ">> \o FormatD(k - 1)
                /\ out[i].value = FormatD(times[1][k])
       /\ Rank(out[i]) = Len(HeaderLabels) + 2 =>
            LET k == i - (Len(HeaderLabels) + 1) - (Len(times[1]) + 1)
            IN  /\ out[i].label = <<"Type of local time: ">> \o FormatD(k - 1)
                /\ out[i].value = FormatD(index[1][k])

\* C9: the object reading with debug=False emits nothing; once both objects
\* have read the same file they ended the same way, at the same step, with
\* the same error, values and cursor; the emissions of the debug=True
\* object are in decode order and complete after a successful decode.
Thm_C9_TracerObservational ==
  /\ output["plain"] = <<>>
  /\ (pc["plain"] \in Finished /\ pc["debug"] \in Finished) =>
       /\ pc["debug"] = pc["plain"]
       /\ error["debug"] = error["plain"]
       /\ steps["debug"] = steps["plain"]
       /\ values["debug"] = values["plain"]
       /\ offset["debug"] = offset["plain"]
       /\ file_header["debug"] = file_header["plain"]
       /\ format_version["debug"] = format_version["plain"]
  /\ InDecodeOrder(output["debug"], values["debug"]["transition_times"],
                   values["debug"]["transition_time_index"])
  /\ pc["debug"] = "done" =>
       Len(output["debug"]) =
         Len(HeaderLabels) + 1
         + 2 * (file_header["debug"][1].number_of_transition_times + 1)
         + Len(DataLabels)

\* C9 witness: both objects read a file with two transition times to the
\* end, and only the debug=True object emitted
Wit_C9_BothDone ==
  /\ pc["plain"] = "done"
  /\ pc["debug"] = "done"
  /\ file_header["debug"][1].number_of_transition_times = 2
  /\ output["plain"] = <<>>
  /\ Len(output["debug"]) > Len(HeaderLabels) + Len(DataLabels)

\* C10 as claimed: after a successful ReadFileObject the attribute
\* format_version holds the version byte of the decoded header.
Cex_C10_FormatVersionSet ==
  \A o \in Objects :
    pc[o] = "done" =>
      format_version[o] = Some(file_header[o][1].format_version)

====
